---- MODULE Spec2Model ----
(***************************************************************************)
(* jirarecon: the search / fetch / scan pipeline of src/jirarecon.py.      *)
(*                                                                         *)
(* Texts are sequences of one-character strings.  Issue keys are the       *)
(* numbers 1..MaxIds, keywords the numbers 1..NumKw.                       *)
(***************************************************************************)
EXTENDS Integers, Sequences, FiniteSets, TLC

(***************************************************************************)
(* Bounds of the model.                                                    *)
(***************************************************************************)
MaxIds == 2
NumKw == 2
MaxLen == 3
MaxHits == 2
MaxThreads == 2
ServerPageCap == 2

(***************************************************************************)
(* Program constants.                                                      *)
(***************************************************************************)
\* re.UNICODE, the flag handed to Pattern.findall as its second argument
RE_UNICODE == 32
\* max_results of search_keyword and list_project_issues
max_results == 100
\* default of --threads
DefaultThreads == 10

Ids == 1..MaxIds
Keywords == 1..NumKw

\* Python's None where a text is expected: no text holds this element
None == <<"None">>

Range(s) == {s[k] : k \in DOMAIN s}

Min2(a, b) == IF a <= b THEN a ELSE b

RECURSIVE Concat(_)
\* the concatenation of a sequence of sequences
Concat(ss) == IF ss = <<>> THEN <<>> ELSE Head(ss) \o Concat(Tail(ss))

\* list(set(xs)): the elements of xs once each, in an order Python leaves open
ListOfSet(S) == CHOOSE l \in [1..Cardinality(S) -> S] : Range(l) = S

\* the characters of the model's texts in code point order
CharOrder ==
    <<" ", "!", "#", "$", "%", "&", "'", "(", ")", "*", "+", ",", "-", ".", "/",
      "0", "1", "2", "3", "4", "5", "6", "7", "8", "9", ":", ";", "=", "?", "@",
      "[", "]", "_",
      "a", "b", "c", "d", "e", "f", "g", "h", "i", "j", "k", "l", "m", "n", "o", "p",
      "q", "r", "s", "t", "u", "v", "w", "x", "y", "z", "~">>

Ord(c) == CHOOSE k \in DOMAIN CharOrder : CharOrder[k] = c

RECURSIVE StrLeq(_, _)
\* a <= b for two str values
StrLeq(a, b) ==
    IF a = <<>> THEN TRUE
    ELSE IF b = <<>> THEN FALSE
    ELSE IF Head(a) = Head(b) THEN StrLeq(Tail(a), Tail(b))
    ELSE Ord(Head(a)) < Ord(Head(b))

RECURSIVE SortedList(_)
\* sorted(list(S)) for a set of str values
SortedList(S) ==
    IF S = {} THEN <<>>
    ELSE LET m == CHOOSE x \in S : \A y \in S : StrLeq(x, y)
         IN <<m>> \o SortedList(S \ {m})

(***************************************************************************)
(* Regular expressions (module re).  A pattern is a tree of nodes; Ends    *)
(* gives the ends of all matches of a node starting at position i, in the  *)
(* order the backtracking matcher tries them, with the span of the         *)
(* capturing group (at most one group per pattern).                        *)
(***************************************************************************)
Leaf == <<>>
NoGroup == <<0, 0>>

Ch(S) == [kind |-> "ch", cs |-> S, neg |-> FALSE, s |-> <<>>, a |-> Leaf, b |-> Leaf]
NotCh(S) == [kind |-> "ch", cs |-> S, neg |-> TRUE, s |-> <<>>, a |-> Leaf, b |-> Leaf]
Lit(str) == [kind |-> "lit", cs |-> {}, neg |-> FALSE, s |-> str, a |-> Leaf, b |-> Leaf]
Cat(x, y) == [kind |-> "cat", cs |-> {}, neg |-> FALSE, s |-> <<>>, a |-> x, b |-> y]
Alt(x, y) == [kind |-> "alt", cs |-> {}, neg |-> FALSE, s |-> <<>>, a |-> x, b |-> y]
Star(x) == [kind |-> "star", cs |-> {}, neg |-> FALSE, s |-> <<>>, a |-> x, b |-> Leaf]
Opt(x) == [kind |-> "opt", cs |-> {}, neg |-> FALSE, s |-> <<>>, a |-> x, b |-> Leaf]
Group(x) == [kind |-> "group", cs |-> {}, neg |-> FALSE, s |-> <<>>, a |-> x, b |-> Leaf]
WordB == [kind |-> "wordb", cs |-> {}, neg |-> FALSE, s |-> <<>>, a |-> Leaf, b |-> Leaf]
Plus(x) == Cat(x, Star(x))

\* \s, \d and \w over the characters the texts of the model use
SpaceChars == {" "}
DigitChars == {"0", "1", "2", "3", "4", "5", "6", "7", "8", "9"}
Letters ==
    {"a", "b", "c", "d", "e", "f", "g", "h", "i", "j", "k", "l", "m", "n", "o", "p",
     "q", "r", "s", "t", "u", "v", "w", "x", "y", "z"}
WordChars == DigitChars \cup Letters \cup {"_"}

IsWordAt(t, i) == i >= 1 /\ i <= Len(t) /\ t[i] \in WordChars

MergeGroup(g1, g2) == IF g2 # NoGroup THEN g2 ELSE g1

RECURSIVE Ends(_, _, _)
Ends(re, t, i) ==
    CASE re.kind = "ch" ->
            IF i <= Len(t) /\ ((t[i] \in re.cs) # re.neg)
            THEN <<[e |-> i + 1, g |-> NoGroup]>> ELSE <<>>
      [] re.kind = "lit" ->
            IF i + Len(re.s) - 1 <= Len(t) /\ SubSeq(t, i, i + Len(re.s) - 1) = re.s
            THEN <<[e |-> i + Len(re.s), g |-> NoGroup]>> ELSE <<>>
      [] re.kind = "cat" ->
            LET first == Ends(re.a, t, i)
            IN Concat([k \in 1..Len(first) |->
                   LET rest == Ends(re.b, t, first[k].e)
                   IN [j \in 1..Len(rest) |->
                          [e |-> rest[j].e, g |-> MergeGroup(first[k].g, rest[j].g)]]])
      [] re.kind = "alt" -> Ends(re.a, t, i) \o Ends(re.b, t, i)
      [] re.kind = "star" ->
            LET first == SelectSeq(Ends(re.a, t, i), LAMBDA r : r.e > i)
            IN Concat([k \in 1..Len(first) |->
                   LET rest == Ends(re, t, first[k].e)
                   IN [j \in 1..Len(rest) |->
                          [e |-> rest[j].e, g |-> MergeGroup(first[k].g, rest[j].g)]]])
               \o <<[e |-> i, g |-> NoGroup]>>
      [] re.kind = "opt" -> Ends(re.a, t, i) \o <<[e |-> i, g |-> NoGroup]>>
      [] re.kind = "group" ->
            LET inner == Ends(re.a, t, i)
            IN [k \in 1..Len(inner) |-> [e |-> inner[k].e, g |-> <<i, inner[k].e>>]]
      [] re.kind = "wordb" ->
            IF IsWordAt(t, i - 1) # IsWordAt(t, i)
            THEN <<[e |-> i, g |-> NoGroup]>> ELSE <<>>

\* the pattern has a match that starts at position i of t
MatchesAt(re, t, i) == Ends(re, t, i) # <<>>

\* what findall reports for the match found at i: the group when the pattern
\* has one, the whole match otherwise
Reported(t, i, r) ==
    IF r.g # NoGroup THEN SubSeq(t, r.g[1], r.g[2] - 1) ELSE SubSeq(t, i, r.e - 1)

RECURSIVE ScanFrom(_, _, _)
\* the non-overlapping matches of re in t, leftmost first, searching from i
ScanFrom(re, t, i) ==
    LET starts == {j \in i..(Len(t) + 1) : MatchesAt(re, t, j)}
    IN IF starts = {} THEN <<>>
       ELSE LET j == CHOOSE x \in starts : \A y \in starts : x <= y
                r == Head(Ends(re, t, j))
            IN <<Reported(t, j, r)>> \o ScanFrom(re, t, IF r.e > j THEN r.e ELSE j + 1)

\* Pattern.findall(string, pos): pos is a 0-based offset into string
findall(re, t, pos) == ScanFrom(re, t, Min2(pos, Len(t)) + 1)


(***************************************************************************)
(* Texts and rule tables the model draws its inputs from.                  *)
(***************************************************************************)
MaxDocs == 1
MaxOver == 1

\* "password = s3cr3t"
PasswordText ==
    <<"p", "a", "s", "s", "w", "o", "r", "d", " ", "=", " ", "s", "3", "c", "r", "3", "t">>
\* "s3cr3t"
SecretText == <<"s", "3", "c", "r", "3", "t">>
\* "xox12"
TokenText == <<"x", "o", "x", "1", "2">>
\* "to do"
PlainText == <<"t", "o", " ", "d", "o">>
\* "visit http://a.b/c and 10.0.0.1"
VisitText ==
    <<"v", "i", "s", "i", "t", " ", "h", "t", "t", "p", ":", "/", "/", "a", ".", "b", "/", "c",
      " ", "a", "n", "d", " ", "1", "0", ".", "0", ".", "0", ".", "1">>
\* "http://a.b/c"
UrlText == <<"h", "t", "t", "p", ":", "/", "/", "a", ".", "b", "/", "c">>
\* "10.0.0.1"
IpText == <<"1", "0", ".", "0", ".", "0", ".", "1">>
\* "at 10.0.0.1 http://a.b"
OtherVisitText ==
    <<"a", "t", " ", "1", "0", ".", "0", ".", "0", ".", "1", " ",
      "h", "t", "t", "p", ":", "/", "/", "a", ".", "b">>

Pad(n) == [k \in 1..n |-> IF k = n THEN " " ELSE "-"]

\* offsets at which a secret is placed: the start of the text and around
\* the offset RE_UNICODE
PadLens == {0} \cup ((RE_UNICODE - 1)..(RE_UNICODE + MaxOver))

PasswordPattern == "password\\s*=\\s*(\\S+)"
TokenPattern == "xox\\d+"
BrokenPattern == "("

CompilesAll(pattern_str) == TRUE

\* re.compile(pattern_str) raises re.error unless the pattern is well formed
Compiles(pattern_str) == pattern_str \in {PasswordPattern, TokenPattern}

ReError == Lit(<<"re.error">>)

\* re.compile(pattern_str): the compiled pattern
Compile(pattern_str) ==
    CASE pattern_str = PasswordPattern ->
            Cat(Lit(<<"p", "a", "s", "s", "w", "o", "r", "d">>),
                Cat(Star(Ch(SpaceChars)),
                    Cat(Lit(<<"=">>),
                        Cat(Star(Ch(SpaceChars)), Group(Plus(NotCh(SpaceChars)))))))
      [] pattern_str = TokenPattern ->
            Cat(Lit(<<"x", "o", "x">>), Plus(Ch(DigitChars)))
      [] OTHER -> ReError

(***************************************************************************)
(* A dict is a sequence of <<key, value>> pairs with distinct keys, in     *)
(* insertion order.                                                        *)
(***************************************************************************)
DictKeys(d) == {d[k][1] : k \in DOMAIN d}

DictGet(d, key) == d[CHOOSE k \in DOMAIN d : d[k][1] = key][2]

DictSet(d, key, val) ==
    IF key \in DictKeys(d)
    THEN [k \in DOMAIN d |-> IF d[k][1] = key THEN <<key, val>> ELSE d[k]]
    ELSE Append(d, <<key, val>>)

RECURSIVE DictUpdate(_, _)
\* d.update(u)
DictUpdate(d, u) ==
    IF u = <<>> THEN d ELSE DictUpdate(DictSet(d, Head(u)[1], Head(u)[2]), Tail(u))

(***************************************************************************)
(* extract_urls_and_ips and collect_urls_and_ips                           *)
(***************************************************************************)
HexChars == DigitChars \cup {"a", "b", "c", "d", "e", "f"}
HostChars == WordChars \cup {"-", "."}
PathChars ==
    WordChars \cup {"-", ".", "_", "~", ":", "/", "?", "#", "[", "]", "@", "!", "$", "&",
                    "'", "(", ")", "*", "+", ",", ";", "="}

\* https?://(?:[-\w.]|(?:%[\da-fA-F]{2}))+(?:/[-\w._~:/?#[\]@!$&'()*+,;=]*)?
url_pattern ==
    Cat(Lit(<<"h", "t", "t", "p">>),
        Cat(Opt(Ch({"s"})),
            Cat(Lit(<<":", "/", "/">>),
                Cat(Plus(Alt(Ch(HostChars),
                             Cat(Lit(<<"%">>), Cat(Ch(HexChars), Ch(HexChars))))),
                    Opt(Cat(Lit(<<"/">>), Star(Ch(PathChars))))))))

\* \d{1,3}
Digits13 == Cat(Ch(DigitChars), Cat(Opt(Ch(DigitChars)), Opt(Ch(DigitChars))))

\* (?:\d{1,3}\.)
Octet == Cat(Digits13, Lit(<<".">>))

\* \b(?:\d{1,3}\.){3}\d{1,3}\b
ip_pattern == Cat(WordB, Cat(Octet, Cat(Octet, Cat(Octet, Cat(Digits13, WordB)))))

\* the two lists extract_urls_and_ips returns
extract_urls_and_ips(text) ==
    IF text = <<>> THEN <<<<>>, <<>>>>
    ELSE <<findall(url_pattern, text, 0), findall(ip_pattern, text, 0)>>

\* repr of a str without quotes or escapes, and of None
ReprItem(x) == IF x = None THEN <<"N", "o", "n", "e">> ELSE <<"'">> \o x \o <<"'">>

RECURSIVE ReprItems(_)
ReprItems(list) ==
    IF list = <<>> THEN <<>>
    ELSE IF Len(list) = 1 THEN ReprItem(Head(list))
    ELSE ReprItem(Head(list)) \o <<",", " ">> \o ReprItems(Tail(list))

\* str(x or ""), for a description
StrOrEmpty(x) == IF x = None THEN <<>> ELSE x

\* str(comments or ""), for the list of comments
StrOfList(list) == IF list = <<>> THEN <<>> ELSE <<"[">> \o ReprItems(list) \o <<"]">>

\* the text of one item that collect_urls_and_ips hands to extract_urls_and_ips
ItemText(data) == StrOrEmpty(data.description) \o <<" ">> \o StrOfList(data.comments)

UpdatedReplace(set, list) == Range(list)

\* set.update(list)
Updated(set, list) == set \cup Range(list)

\* all_urls.update(urls); all_ips.update(ips); acc is <<all_urls, all_ips>>
\* of a pair <<urls, ips>>
Urls(pair) == Head(pair)
Ips(pair) == Head(Tail(pair))

UpdatedBoth(acc, found) ==
    <<Updated(Urls(acc), Urls(found)), Updated(Ips(acc), Ips(found))>>

RECURSIVE CollectLoop(_, _, _)
\* the loop `for item_id, data in fetched_data.items()` over the keys in the
\* order of the dict
CollectLoop(fetched_data, order, acc) ==
    IF order = <<>> THEN acc
    ELSE CollectLoop(fetched_data, Tail(order),
                     UpdatedBoth(acc, extract_urls_and_ips(ItemText(fetched_data[Head(order)]))))

\* return sorted(list(all_urls)), sorted(list(all_ips))
SortedBoth(sets) == <<SortedList(Urls(sets)), SortedList(Ips(sets))>>

\* order: the keys of fetched_data in the order the dict iterates them
collect_urls_and_ips(fetched_data, order) ==
    SortedBoth(CollectLoop(fetched_data, order, <<{}, {}>>))

(***************************************************************************)
(* The state.                                                              *)
(***************************************************************************)
VARIABLES
    pc,                 \* position of the main thread
    regexes,            \* truffleHogRegexes.regexChecks.regexes
    custom_rules,       \* rules.custom_rules
    fetched_data_map,   \* issue key -> details
    results,            \* result of check_credentials
    extracted,          \* result of collect_urls_and_ips: <<urls, ips>>
    server_issues,      \* the server: query -> the issue keys its search finds, in order
    server_total,       \* the server: how responses report "total"
    server_fail,        \* the server: query -> which page request fails, and how
    server_cap,         \* the server: the most issues it puts in one page
    issue_resp,         \* the server: issue key -> how GET /issue/<key> answers
    page_fn,            \* the enumerating function that is running
    cur,                \* its locals: start_at, found, the offsets sent, the result
    threads,            \* args.threads
    mode,               \* "keywords", or "project" when args.search_project is set
    found_issue_keys,   \* the candidate set
    found_issues,       \* search_project_keywords: the list it builds
    kw_index,           \* search_project_keywords: position in the keyword list
    kw_state,           \* keyword -> state of the future of its search
    fut_state,          \* issue key -> state of the future of its fetch
    fut_result,         \* issue key -> result of its finished future
    fetch_order,        \* the keys of fetched_data_map in insertion order
    progress,           \* the current progress task: total and completed
    console,            \* what console.print has written: message and counts
    token,              \* whether args.token is given
    username,           \* whether args.username is given
    password,           \* whether args.password is given
    url,                \* whether args.url is given
    login_resp,         \* the server: how GET /rest/api/2/myself answers
    page_list           \* handle_confluence: the pages the listing returned

scanVars == <<regexes, custom_rules, fetched_data_map, results, extracted>>
serverVars == <<server_issues, server_total, server_fail, server_cap, issue_resp, login_resp>>
argVars == <<threads, mode, token, username, password, url>>
searchVars == <<found_issue_keys, found_issues, kw_index, kw_state>>
fetchVars == <<fut_state, fut_result, fetch_order, progress>>
pageVars == <<page_fn, cur>>

(***************************************************************************)
(* The search endpoint /rest/api/2/search as the enumerators see it.       *)
(***************************************************************************)
NoFail == [at |-> 0, kind |-> "none"]

\* the response to the n-th page request of query q
SearchResponse(q, start_at, limit, n) ==
    LET items == server_issues[q]
        last == Min2(start_at + Min2(limit, server_cap), Len(items))
    IN [raises |-> server_fail[q].at = n /\ server_fail[q].kind = "exception",
        status |-> IF server_fail[q].at = n /\ server_fail[q].kind = "status"
                   THEN 403 ELSE 200,
        issues |-> SubSeq(items, start_at + 1, last),
        total |-> CASE server_total = "exact" -> [kind |-> "int", value |-> Len(items)]
                    [] server_total = "over" -> [kind |-> "int", value |-> Len(items) + 1]
                    [] OTHER -> [kind |-> server_total, value |-> 0]]

\* data.get("total", 0)
TotalOrZero(total) == IF total.kind = "absent" THEN 0 ELSE total.value

(***************************************************************************)
(* search_keyword and list_project_issues: one iteration of `while True`.  *)
(***************************************************************************)
StartPages == [start_at |-> 0, found |-> <<>>, sent |-> <<>>, done |-> FALSE, result |-> <<>>]

AdvanceByPageSize(start_at, batch) == start_at + max_results

\* start_at += len(batch)
Advance(start_at, batch) == start_at + Len(batch)

\* what the function returns when a request raises or a body does not decode
OnException(fn, found) == IF fn = "list_project_issues" THEN <<>> ELSE found

OnStatusEmpty(fn, found) == <<>>

\* what the function returns when a response has a status other than 200
OnStatus(fn, found) == found

PageStep(fn, q, c) ==
    LET resp == SearchResponse(q, c.start_at, max_results, Len(c.sent) + 1)
        asked == [c EXCEPT !.sent = Append(c.sent, c.start_at)]
        found2 == c.found \o resp.issues
        start2 == Advance(c.start_at, resp.issues)
    IN CASE resp.raises ->
              [asked EXCEPT !.done = TRUE, !.result = OnException(fn, c.found)]
         [] resp.status # 200 ->
              [asked EXCEPT !.done = TRUE, !.result = OnStatus(fn, c.found)]
         [] resp.issues = <<>> ->
              [asked EXCEPT !.done = TRUE, !.result = c.found]
         [] resp.total.kind = "malformed" ->
              \* start_at >= data.get("total", 0) raises TypeError
              [asked EXCEPT !.start_at = start2, !.found = found2, !.done = TRUE,
                            !.result = OnException(fn, found2)]
         [] OTHER ->
              [asked EXCEPT !.start_at = start2, !.found = found2,
                            !.done = (start2 >= TotalOrZero(resp.total)),
                            !.result = found2]

RECURSIVE RunPages(_, _, _)
RunPages(fn, q, c) == IF c.done THEN c ELSE RunPages(fn, q, PageStep(fn, q, c))

\* the list search_keyword returns
search_keyword(q) == RunPages("search_keyword", q, StartPages).result

\* the keys of the issues list_project_issues returns
list_project_issues(q) == RunPages("list_project_issues", q, StartPages).result

(***************************************************************************)
(* check_credentials                                                       *)
(***************************************************************************)
MergedRulesBuiltinWins(base, override) == DictUpdate(override, base)

\* rules = regexes.copy(); rules.update(custom_rules)
MergedRules(base, override) == DictUpdate(base, override)

\* compiled_rules: the rules whose pattern compiles, with the compiled pattern
CompiledRules(base, override) ==
    LET rules == MergedRules(base, override)
        ok == SelectSeq(rules, LAMBDA r : Compiles(r[2]))
    IN [k \in 1..Len(ok) |-> <<ok[k][1], Compile(ok[k][2])>>]

\* Python truth of a description or comment: None and "" are false
Truthy(text) == text # None /\ text # <<>>

\* pattern.findall(str(text), re.UNICODE)
FieldMatches(pattern, text) == findall(pattern, text, RE_UNICODE)

\* d_match after the loop over compiled_rules
DMatch(compiled, description) ==
    Concat([k \in 1..Len(compiled) |->
               IF Truthy(description) THEN FieldMatches(compiled[k][2], description)
               ELSE <<>>])

\* c_match after the loop over compiled_rules
CMatch(compiled, comments) ==
    Concat([k \in 1..Len(compiled) |->
               Concat([j \in 1..Len(comments) |->
                          IF Truthy(comments[j])
                          THEN FieldMatches(compiled[k][2], comments[j])
                          ELSE <<>>])])

HasEntryAlways(d_match, c_match) == TRUE

\* whether the issue gets an entry in analyzed_results
HasEntry(d_match, c_match) == d_match # <<>> \/ c_match # <<>>

DistinctKeepAll(matches) == matches

\* list(set(d_match)), list(set(c_match))
Distinct(matches) == ListOfSet(Range(matches))

check_credentials(fetched_data, base, override) ==
    LET compiled == CompiledRules(base, override)
        d_match(id) == DMatch(compiled, fetched_data[id].description)
        c_match(id) == CMatch(compiled, fetched_data[id].comments)
        hit == {id \in DOMAIN fetched_data : HasEntry(d_match(id), c_match(id))}
    IN [id \in hit |->
           [description |-> Distinct(d_match(id)),
            comments |-> Distinct(c_match(id))]]


(***************************************************************************)
(* The issue endpoint /rest/api/2/issue/<key> and fetch_issue_data.        *)
(***************************************************************************)
\* what the server holds for an issue
ServerDoc(id) ==
    CASE id = 1 -> [summary |-> "s", description |-> Pad(RE_UNICODE) \o PasswordText,
                    comments |-> <<PlainText>>]
      [] id = 2 -> [summary |-> "s", description |-> None,
                    comments |-> <<OtherVisitText, Pad(RE_UNICODE) \o TokenText>>]
      [] OTHER -> [summary |-> "s", description |-> VisitText, comments |-> <<>>]

ResponseKinds == {"ok", "status", "exception", "undecodable"}

\* details = {"summary": "N/A", "description": "", "comments": []}
DefaultDetails == [summary |-> "N/A", description |-> <<>>, comments |-> <<>>]

\* the details fetch_issue_data returns for a response of the given kind; a
\* response with an error status carries a JSON body without "fields"
DetailsOf(id, kind) ==
    CASE kind = "ok" -> ServerDoc(id)
      [] kind = "status" -> DefaultDetails
      [] OTHER -> DefaultDetails

fetch_issue_data(id) == <<id, DetailsOf(id, issue_resp[id])>>

(***************************************************************************)
(* ThreadPoolExecutor(max_workers = args.threads): a future is pending,    *)
(* running, finished (done, not yet yielded by as_completed) or collected. *)
(***************************************************************************)
InState(st, which) == {k \in DOMAIN st : st[k] = which}

WorkerFreeAlways(st, n) == TRUE

\* a worker thread is free to take the next queued call
WorkerFree(st, n) == Cardinality(InState(st, "running")) < n

AllCollectedAlways(st) == TRUE

\* as_completed has yielded every future
AllCollected(st) == \A k \in DOMAIN st : st[k] = "collected"

Idle == [total |-> 0, completed |-> 0]

\* console.print(...): the message and the numbers it shows
Printed(out, msg, args) == Append(out, [msg |-> msg, args |-> args])

\* login: "[+] Successfully logged in as ..."
LoginBanner == Printed(<<>>, "Successfully logged in", <<>>)

\* the arguments and the server's answer of a run whose login succeeded
\* with a token
SessionOpen ==
    /\ token = TRUE
    /\ username = FALSE
    /\ password = FALSE
    /\ url = TRUE
    /\ login_resp = "ok"

NotAdvanced(p) == p

\* progress.advance(task)
Advanced(p) == [p EXCEPT !.completed = p.completed + 1]

\* the state of a run before handle_jira has done anything
IdleRun ==
    /\ threads = 1
    /\ mode = "none"
    /\ found_issue_keys = {}
    /\ found_issues = <<>>
    /\ kw_index = 0
    /\ kw_state = <<>>
    /\ fut_state = <<>>
    /\ fut_result = <<>>
    /\ fetch_order = <<>>
    /\ progress = Idle
    /\ console = <<>>

(***************************************************************************)
(* handle_jira: the search across all projects, one future per keyword.    *)
(***************************************************************************)
keywords_to_search == [k \in 1..NumKw |-> k]

SubmitSearches ==
    /\ pc = "start"
    /\ mode = "keywords"
    /\ kw_state' = [kw \in Range(keywords_to_search) |-> "pending"]
    /\ progress' = [total |-> Len(keywords_to_search), completed |-> 0]
    /\ pc' = "search_collect"
    /\ UNCHANGED <<scanVars, serverVars, pageVars, argVars, page_list, console, found_issue_keys,
                   found_issues, kw_index, fut_state, fut_result, fetch_order>>

SearchStart(kw) ==
    /\ pc = "search_collect"
    /\ kw \in InState(kw_state, "pending")
    /\ WorkerFree(kw_state, threads)
    /\ kw_state' = [kw_state EXCEPT ![kw] = "running"]
    /\ UNCHANGED <<pc, scanVars, serverVars, pageVars, argVars, page_list, console, found_issue_keys,
                   found_issues, kw_index, fetchVars>>

\* search_keyword(url, kw, session) runs to its return
SearchFinish(kw) ==
    /\ kw \in InState(kw_state, "running")
    /\ kw_state' = [kw_state EXCEPT ![kw] = "finished"]
    /\ UNCHANGED <<pc, scanVars, serverVars, pageVars, argVars, page_list, console, found_issue_keys,
                   found_issues, kw_index, fetchVars>>

MergeOrReset(found, keys) == IF keys = <<>> THEN {} ELSE found \cup Range(keys)

MergeReplace(found, keys) == Range(keys)

\* found_issue_keys.update(keys)
Merge(found, keys) == found \cup Range(keys)

SearchCollect(kw) ==
    /\ pc = "search_collect"
    /\ kw \in InState(kw_state, "finished")
    /\ found_issue_keys' = Merge(found_issue_keys, search_keyword(kw))
    /\ kw_state' = [kw_state EXCEPT ![kw] = "collected"]
    /\ progress' = Advanced(progress)
    /\ UNCHANGED <<pc, scanVars, serverVars, pageVars, argVars, page_list, console, found_issues, kw_index,
                   fut_state, fut_result, fetch_order>>

SearchesDone ==
    /\ pc = "search_collect"
    /\ AllCollected(kw_state)
    /\ console' = Printed(console, "Search returned", <<Cardinality(found_issue_keys)>>)
    /\ pc' = "found"
    /\ UNCHANGED <<scanVars, serverVars, pageVars, argVars, page_list, searchVars, fetchVars>>

(***************************************************************************)
(* search_project_keywords: one request per keyword, in the main thread.   *)
(***************************************************************************)
\* maxResults of search_project_keywords
project_max_results == 10000

RECURSIVE AppendNew(_, _, _)
\* the loop `for issue in issues`: an issue is appended unless its key is
\* already in found_issues
AppendNew(found, issues, keyword) ==
    IF issues = <<>> THEN found
    ELSE LET key == Head(issues)
             seen == {found[k].key : k \in DOMAIN found}
         IN AppendNew(IF key \in seen THEN found
                      ELSE Append(found, [key |-> key, keyword |-> keyword]),
                      Tail(issues), keyword)

\* the body of `for keyword in keywords`
ProjectKeyword(found, keyword) ==
    LET resp == SearchResponse(keyword, 0, project_max_results, 1)
    IN IF resp.raises \/ resp.status # 200 THEN found
       ELSE AppendNew(found, resp.issues, keyword)

StartProjectSearch ==
    /\ pc = "start"
    /\ mode = "project"
    /\ found_issues' = <<>>
    /\ kw_index' = 1
    /\ progress' = [total |-> Len(keywords_to_search), completed |-> 0]
    /\ pc' = "search_project"
    /\ UNCHANGED <<scanVars, serverVars, pageVars, argVars, page_list, console, found_issue_keys, kw_state,
                   fut_state, fut_result, fetch_order>>

SearchProjectStep ==
    /\ pc = "search_project"
    /\ kw_index <= Len(keywords_to_search)
    /\ found_issues' = ProjectKeyword(found_issues, keywords_to_search[kw_index])
    /\ kw_index' = kw_index + 1
    /\ progress' = Advanced(progress)
    /\ UNCHANGED <<pc, scanVars, serverVars, pageVars, argVars, page_list, console, found_issue_keys, kw_state,
                   fut_state, fut_result, fetch_order>>

\* found_issue_keys.update([item['key'] for item in project_results])
SearchProjectReturn ==
    /\ pc = "search_project"
    /\ kw_index > Len(keywords_to_search)
    /\ found_issue_keys' = Merge(found_issue_keys, [k \in DOMAIN found_issues |-> found_issues[k].key])
    /\ console' = Printed(console, "Search returned", <<Cardinality(found_issue_keys')>>)
    /\ pc' = "found"
    /\ UNCHANGED <<scanVars, serverVars, pageVars, argVars, page_list, found_issues, kw_index,
                   kw_state, fetchVars>>

(***************************************************************************)
(* handle_jira: the extraction mode enumerates one project.                *)
(***************************************************************************)
\* issues = list_project_issues(url, session, args.list_issues)
\* if issues: found_issue_keys.update([issue['key'] for issue in issues])
ListIssues ==
    /\ pc = "start"
    /\ mode = "extract"
    /\ found_issue_keys' = Merge(found_issue_keys, list_project_issues(1))
    /\ console' = Printed(console, "Identified", <<Cardinality(found_issue_keys')>>)
    /\ pc' = "found"
    /\ UNCHANGED <<scanVars, serverVars, pageVars, argVars, page_list, found_issues, kw_index,
                   kw_state, fetchVars>>

(***************************************************************************)
(* handle_jira: the fetch phase, one future per candidate.                 *)
(***************************************************************************)
\* if not found_issue_keys: return
NoCandidates ==
    /\ pc = "found"
    /\ found_issue_keys = {}
    /\ pc' = "returned"
    /\ UNCHANGED <<scanVars, serverVars, pageVars, argVars, page_list, console, searchVars, fetchVars>>

SubmitFetches ==
    /\ pc = "found"
    /\ found_issue_keys # {}
    /\ fetched_data_map' = <<>>
    /\ fetch_order' = <<>>
    /\ fut_state' = [iid \in found_issue_keys |-> "pending"]
    /\ progress' = [total |-> Cardinality(found_issue_keys), completed |-> 0]
    /\ pc' = "fetch_collect"
    /\ UNCHANGED <<regexes, custom_rules, results, extracted, serverVars, pageVars, argVars, page_list, console,
                   searchVars, fut_result>>

\* a worker takes the call from the queue and sends the request; the workers
\* keep draining the queue while the main thread waits in the executor's
\* shutdown after an interrupt
FetchStart(iid) ==
    /\ pc \in {"fetch_collect", "interrupted"}
    /\ iid \in InState(fut_state, "pending")
    /\ WorkerFree(fut_state, threads)
    /\ fut_state' = [fut_state EXCEPT ![iid] = "running"]
    /\ UNCHANGED <<pc, scanVars, serverVars, pageVars, argVars, page_list, console, searchVars,
                   fut_result, fetch_order, progress>>

FetchFinish(iid) ==
    /\ iid \in InState(fut_state, "running")
    /\ fut_state' = [fut_state EXCEPT ![iid] = "finished"]
    /\ fut_result' = [k \in DOMAIN fut_result \cup {iid} |->
                         IF k = iid THEN fetch_issue_data(iid) ELSE fut_result[k]]
    /\ UNCHANGED <<pc, scanVars, serverVars, pageVars, argVars, page_list, console, searchVars, fetch_order,
                   progress>>

StoreOnly(map, iid, details) == [k \in {iid} |-> details]

StoreUnderOtherKey(map, iid, details) ==
    [k \in DOMAIN map \cup {iid + MaxIds} |-> IF k = iid + MaxIds THEN details ELSE map[k]]

\* fetched_data_map[iid] = details
Store(map, iid, details) ==
    [k \in DOMAIN map \cup {iid} |-> IF k = iid THEN details ELSE map[k]]

TakenAndQueuedAgain(st, fid) == [st EXCEPT ![fid] = "pending"]

\* as_completed has yielded the future: it is not yielded or run again
Taken(st, fid) == [st EXCEPT ![fid] = "collected"]

\* one iteration of `for future in as_completed(future_to_id)`
FetchCollect(fid) ==
    /\ pc = "fetch_collect"
    /\ fid \in InState(fut_state, "finished")
    /\ fetched_data_map' = Store(fetched_data_map, fut_result[fid][1], fut_result[fid][2])
    /\ progress' = Advanced(progress)
    /\ fut_state' = Taken(fut_state, fid)
    /\ fetch_order' = IF fut_result[fid][1] \in Range(fetch_order) THEN fetch_order
                      ELSE Append(fetch_order, fut_result[fid][1])
    /\ UNCHANGED <<pc, regexes, custom_rules, results, extracted, serverVars, pageVars, argVars, page_list, console,
                   searchVars, fut_result>>

\* the loop and the `with` block end; the extraction mode goes on to
\* collect_urls_and_ips, the scan mode to check_credentials
FetchesDone ==
    /\ pc = "fetch_collect"
    /\ AllCollected(fut_state)
    /\ pc' = IF mode = "extract" THEN "extract" ELSE "analyze"
    /\ UNCHANGED <<scanVars, serverVars, pageVars, argVars, page_list, console, searchVars, fetchVars>>

\* KeyboardInterrupt in the main thread while it waits in as_completed: the
\* exception leaves the loop and the `with` block waits for the executor
Interrupt ==
    /\ pc = "fetch_collect"
    /\ ~AllCollected(fut_state)
    /\ pc' = "interrupted"
    /\ UNCHANGED <<scanVars, serverVars, pageVars, argVars, page_list, console, searchVars, fetchVars>>

\* the executor has shut down and the exception ends the run
Abort ==
    /\ pc = "interrupted"
    /\ InState(fut_state, "pending") = {}
    /\ InState(fut_state, "running") = {}
    /\ pc' = "aborted"
    /\ UNCHANGED <<scanVars, serverVars, pageVars, argVars, page_list, console, searchVars, fetchVars>>

(***************************************************************************)
(* handle_jira: the scan step.                                             *)
(***************************************************************************)
\* the table "Scanned Issues (N)", unless nothing was fetched
display_scanned_issues(out, fetched_data) ==
    IF DOMAIN fetched_data = {} THEN out
    ELSE Printed(out, "Scanned Issues", <<Cardinality(DOMAIN fetched_data)>>)

\* "No secrets found in the scanned issues." or the table and
\* "Total Issues with Secrets: N"
display_results(out, res) ==
    IF DOMAIN res = {} THEN Printed(out, "No secrets found", <<>>)
    ELSE Printed(out, "Total Issues with Secrets", <<Cardinality(DOMAIN res)>>)

\* "Analyzing N issues for secrets..."
Analyzing(out, fetched_data) ==
    Printed(out, "Analyzing", <<Cardinality(DOMAIN fetched_data)>>)

\* display_scanned_issues(fetched_data_map); print; results =
\* check_credentials(fetched_data_map); print; display_results(results, ..)
Analyze ==
    /\ pc = "analyze"
    /\ results' = check_credentials(fetched_data_map, regexes, custom_rules)
    /\ console' = display_results(
                      Printed(Analyzing(display_scanned_issues(console, fetched_data_map),
                                        fetched_data_map),
                              "Scan Compete", <<>>),
                      results')
    /\ pc' = "done"
    /\ UNCHANGED <<regexes, custom_rules, fetched_data_map, extracted>>
    /\ UNCHANGED <<serverVars, pageVars, argVars, page_list, searchVars, fetchVars>>

\* extracted_urls, extracted_ips = collect_urls_and_ips(fetched_data_map)
Extract ==
    /\ pc = "extract"
    /\ extracted' = collect_urls_and_ips(fetched_data_map, fetch_order)
    /\ console' = Printed(console, "Found URLs and IPs",
                          <<Len(Urls(extracted')), Len(Ips(extracted'))>>)
    /\ pc' = "done"
    /\ UNCHANGED <<regexes, custom_rules, fetched_data_map, results>>
    /\ UNCHANGED <<serverVars, pageVars, argVars, page_list, searchVars, fetchVars>>

(***************************************************************************)
(* The scan alone, on drawn documents and rule tables.                     *)
(***************************************************************************)
Descriptions ==
    {None, <<>>, PlainText, Pad(RE_UNICODE + 1) \o PlainText}
        \cup {Pad(n) \o PasswordText : n \in PadLens}
        \cup {Pad(n) \o TokenText \o <<" ">> \o PasswordText : n \in PadLens}

CommentLists ==
    {<<>>, <<PlainText>>, <<<<>>, PasswordText>>,
     <<Pad(RE_UNICODE) \o PasswordText, Pad(RE_UNICODE) \o PasswordText>>,
     <<Pad(RE_UNICODE) \o TokenText, PlainText>>}

Details == [summary : {"N/A", "s"}, description : Descriptions, comments : CommentLists]

BuiltinTables ==
    {<<>>,
     <<<<"Password", PasswordPattern>>>>,
     <<<<"Password", PasswordPattern>>, <<"Token", TokenPattern>>>>,
     <<<<"Broken", BrokenPattern>>, <<"Password", PasswordPattern>>>>}

OverrideTables ==
    {<<>>,
     <<<<"Password", TokenPattern>>>>,
     <<<<"Custom", TokenPattern>>, <<"Broken", PasswordPattern>>>>,
     <<<<"Password", BrokenPattern>>>>}

ScanIds == 1..MaxDocs

InitScan ==
    /\ pc = "analyze"
    /\ page_list = <<>>
    /\ SessionOpen
    /\ regexes \in BuiltinTables
    /\ custom_rules \in OverrideTables
    /\ \E keys \in SUBSET ScanIds :
           fetched_data_map \in [keys -> {d \in Details : d.summary = "s"}]
    /\ results = <<>>
    /\ extracted = <<>>
    /\ server_issues = [q \in Keywords |-> <<>>]
    /\ server_total = "exact"
    /\ server_fail = [q \in Keywords |-> NoFail]
    /\ server_cap = ServerPageCap
    /\ issue_resp = <<>>
    /\ page_fn = "none"
    /\ cur = StartPages
    /\ IdleRun

vars == <<pc, scanVars, serverVars, pageVars, argVars, searchVars, fetchVars, console, page_list>>

NextScan == Analyze

SpecScan == InitScan /\ [][NextScan]_vars


(***************************************************************************)
(* Properties of the scan.                                                 *)
(***************************************************************************)
Compiled == CompiledRules(regexes, custom_rules)

\* the strings the compiled rules match anywhere in a field text
WholeTextMatches(text) ==
    IF Truthy(text)
    THEN UNION {Range(findall(Compiled[k][2], text, 0)) : k \in DOMAIN Compiled}
    ELSE {}

WholeCommentMatches(comments) ==
    UNION {WholeTextMatches(comments[j]) : j \in DOMAIN comments}

\* no compiled rule matches at any position of the text
NoMatchIn(text) ==
    Truthy(text) =>
        \A k \in DOMAIN Compiled : \A i \in 1..(Len(text) + 1) :
            ~MatchesAt(Compiled[k][2], text, i)

NoMatchInIssue(id) ==
    /\ NoMatchIn(fetched_data_map[id].description)
    /\ \A j \in DOMAIN fetched_data_map[id].comments :
           NoMatchIn(fetched_data_map[id].comments[j])

ReportedDescription(id) ==
    IF id \in DOMAIN results THEN Range(results[id].description) ELSE {}

ReportedComments(id) ==
    IF id \in DOMAIN results THEN Range(results[id].comments) ELSE {}

\* C2: after the scan, the match set of every field of every document is the
\* union over all compiled rules of the strings matched anywhere in the
\* field's text, matches at the very beginning of the text included.
C2_ScanCompleteness ==
    pc = "done" =>
        \A id \in DOMAIN fetched_data_map :
            /\ ReportedDescription(id) = WholeTextMatches(fetched_data_map[id].description)
            /\ ReportedComments(id) = WholeCommentMatches(fetched_data_map[id].comments)

PasswordRuleLoaded ==
    \E k \in DOMAIN Compiled : Compiled[k][2] = Compile(PasswordPattern)

\* C3: with the rule password\s*=\s*(\S+) loaded, a field whose whole text is
\* "password = s3cr3t" yields a non-empty match set that holds the matched
\* substring, and a document in which no rule matches yields no matches.
C3_RuleEngineSoundness ==
    pc = "done" =>
        \A id \in DOMAIN fetched_data_map :
            /\ (PasswordRuleLoaded /\ fetched_data_map[id].description = PasswordText) =>
                   ReportedDescription(id) \cap {SecretText, PasswordText} # {}
            /\ NoMatchInIssue(id) =>
                   ReportedDescription(id) = {} /\ ReportedComments(id) = {}

\* C4: a document whose description and comments hold no match of any
\* compiled rule is not a key of the result of check_credentials.
C4_ScanSparsity ==
    pc = "done" =>
        \A id \in DOMAIN fetched_data_map :
            NoMatchInIssue(id) => id \notin DOMAIN results

\* a scanned document with text in its description and a comment, rules
\* loaded, nothing matching, and no entry
C4_Witness ==
    /\ pc = "done"
    /\ Compiled # <<>>
    /\ \E id \in DOMAIN fetched_data_map :
           /\ Truthy(fetched_data_map[id].description)
           /\ fetched_data_map[id].comments # <<>>
           /\ NoMatchInIssue(id)
           /\ id \notin DOMAIN results


\* the pattern strings of the drawn tables that are regular expressions
WellFormed(pattern_str) == pattern_str \in {PasswordPattern, TokenPattern}

\* the rules of the merged table whose pattern is a regular expression
WellFormedRules == SelectSeq(MergedRules(regexes, custom_rules), LAMBDA r : WellFormed(r[2]))

UsedPattern(name) ==
    IF name \in DictKeys(custom_rules) THEN DictGet(custom_rules, name)
    ELSE DictGet(regexes, name)

\* the names of both tables, and those whose pattern compiles
RuleNames == DictKeys(regexes) \cup DictKeys(custom_rules)

\* the strings the rule patterns chosen by UsedPattern match in a field text
\* from the offset the scan starts at
UsedMatches(text) ==
    IF Truthy(text)
    THEN UNION {Range(FieldMatches(Compile(UsedPattern(n)), text)) :
                   n \in {x \in RuleNames : WellFormed(UsedPattern(x))}}
    ELSE {}

\* C12: a rule name of both tables is scanned with the pattern of
\* custom_rules, a name of one table with that table's pattern.
C12_OverridePrecedence ==
    /\ DictKeys(MergedRules(regexes, custom_rules)) = RuleNames
    /\ \A r \in Range(MergedRules(regexes, custom_rules)) : r[2] = UsedPattern(r[1])
    /\ \A c \in Range(Compiled) : c[2] = Compile(UsedPattern(c[1]))
    /\ pc = "done" =>
           \A id \in DOMAIN fetched_data_map :
               /\ ReportedDescription(id) = UsedMatches(fetched_data_map[id].description)
               /\ ReportedComments(id) =
                      UNION {UsedMatches(fetched_data_map[id].comments[j]) :
                                j \in DOMAIN fetched_data_map[id].comments}

\* a name of both tables with different patterns, and a match of the
\* override's pattern reported
C12_Witness ==
    /\ pc = "done"
    /\ \E n \in DictKeys(regexes) \cap DictKeys(custom_rules) :
           /\ DictGet(regexes, n) # DictGet(custom_rules, n)
           /\ WellFormed(DictGet(custom_rules, n))
           /\ \E id \in DOMAIN results :
                  Range(results[id].description) \cup Range(results[id].comments)
                      \subseteq {TokenText}


(***************************************************************************)
(* One enumeration alone, page by page, against a drawn server.            *)
(***************************************************************************)
\* one iteration of the loop of search_keyword or list_project_issues
PageRequest ==
    /\ pc = "paging"
    /\ ~cur.done
    /\ cur' = PageStep(page_fn, 1, cur)
    /\ UNCHANGED <<pc, page_fn, scanVars, serverVars, argVars, page_list, console, searchVars, fetchVars>>

\* the function returns
PageReturn ==
    /\ pc = "paging"
    /\ cur.done
    /\ pc' = "returned"
    /\ UNCHANGED <<cur, page_fn, scanVars, serverVars, argVars, page_list, console, searchVars, fetchVars>>

TotalModes == {"exact", "over", "absent", "malformed"}

IssueLists == UNION {[1..n -> Ids] : n \in 0..MaxLen}

MaxRequests == MaxLen + 1

PageFailures ==
    {NoFail} \cup [at : 1..MaxRequests, kind : {"status", "exception"}]

InitPage ==
    /\ pc = "paging"
    /\ page_list = <<>>
    /\ SessionOpen
    /\ page_fn \in {"search_keyword", "list_project_issues"}
    /\ cur = StartPages
    /\ \E items \in IssueLists : server_issues = [q \in Keywords |-> items]
    /\ server_total \in TotalModes
    /\ \E f \in PageFailures : server_fail = [q \in Keywords |-> f]
    /\ server_cap \in 1..ServerPageCap
    /\ issue_resp = <<>>
    /\ regexes = <<>>
    /\ custom_rules = <<>>
    /\ fetched_data_map = <<>>
    /\ results = <<>>
    /\ extracted = <<>>
    /\ IdleRun

NextPage == PageRequest \/ PageReturn

SpecPage == InitPage /\ [][NextPage]_vars


(***************************************************************************)
(* The fetch and scan phases alone, from a drawn candidate set.            *)
(***************************************************************************)
ThreadCounts == (1..MaxThreads) \cup {DefaultThreads}

BaseRules == <<<<"Password", PasswordPattern>>, <<"Token", TokenPattern>>>>

InitFetch ==
    /\ pc = "found"
    /\ page_list = <<>>
    /\ SessionOpen
    /\ found_issue_keys \in SUBSET Ids
    /\ mode \in {"keywords", "extract"}
    /\ issue_resp \in [found_issue_keys ->
                          IF mode = "keywords" THEN ResponseKinds ELSE {"ok", "exception"}]
    /\ threads \in ThreadCounts
    /\ found_issues = <<>>
    /\ kw_index = 0
    /\ kw_state = <<>>
    /\ fut_state = <<>>
    /\ fut_result = <<>>
    /\ fetch_order = <<>>
    /\ progress = Idle
    /\ console = Printed(LoginBanner, IF mode = "extract" THEN "Identified" ELSE "Search returned",
                         <<Cardinality(found_issue_keys)>>)
    /\ regexes = BaseRules
    /\ custom_rules = <<>>
    /\ fetched_data_map = <<>>
    /\ results = <<>>
    /\ extracted = <<>>
    /\ server_issues = [q \in Keywords |-> <<>>]
    /\ server_total = "exact"
    /\ server_fail = [q \in Keywords |-> NoFail]
    /\ server_cap = ServerPageCap
    /\ page_fn = "none"
    /\ cur = StartPages

FetchPhase ==
    \/ NoCandidates
    \/ SubmitFetches
    \/ \E iid \in Ids : FetchStart(iid)
    \/ \E iid \in Ids : FetchFinish(iid)
    \/ \E fid \in Ids : FetchCollect(fid)
    \/ FetchesDone
    \/ Interrupt
    \/ Abort

NextFetch == FetchPhase \/ Analyze \/ Extract

SpecFetch == InitFetch /\ [][NextFetch]_vars


(***************************************************************************)
(* Properties of the fetch phase.                                          *)
(***************************************************************************)
FetchEnded == pc \in {"analyze", "extract", "done"}

Succeeded == {iid \in found_issue_keys : issue_resp[iid] = "ok"}

\* C1: when the fetch phase has ended, the keys of the document map are
\* exactly the candidates whose fetch succeeded; a candidate whose request
\* raised, answered with an error status or did not decode is not a key.
C1_FetchPartialFailure ==
    FetchEnded => DOMAIN fetched_data_map = Succeeded

\* what a deterministic transport makes of the candidate set, whatever the
\* pool size and the order in which the futures complete
ExpectedMap == [iid \in found_issue_keys |-> DetailsOf(iid, issue_resp[iid])]

\* the entries of a scan result with each match list taken as a set
AsSets(res) ==
    [iid \in DOMAIN res |->
        [description |-> Range(res[iid].description), comments |-> Range(res[iid].comments)]]

\* C7: the final document map, the scan result (match lists as sets) and the
\* sorted extraction lists depend on the candidate set and the transport's
\* answers alone, not on args.threads nor on the order in which the fetches
\* start, finish and are collected.
C7_Deterministic ==
    /\ FetchEnded => fetched_data_map = ExpectedMap
    /\ (pc = "done" /\ mode = "keywords") =>
           AsSets(results) = AsSets(check_credentials(ExpectedMap, regexes, custom_rules))
    /\ (pc = "done" /\ mode = "extract") =>
           extracted = collect_urls_and_ips(ExpectedMap, ListOfSet(found_issue_keys))

\* a finished run with more than one worker in which the documents were
\* stored in an order other than ascending key order
C7_Witness ==
    /\ pc = "done"
    /\ threads > 1
    /\ results # <<>>
    /\ \E i, j \in DOMAIN fetch_order : i < j /\ fetch_order[i] > fetch_order[j]

InFlight == InState(fut_state, "running")

\* C8: the number of document requests in flight never exceeds args.threads.
C8_BoundedConcurrency == Cardinality(InFlight) <= threads

\* every worker busy while candidates are still queued
C8_Witness ==
    /\ Cardinality(InFlight) = threads
    /\ InState(fut_state, "pending") # {}

InFetchPhase == pc \in {"fetch_collect", "interrupted", "aborted", "analyze", "extract"}

\* the loop over as_completed has ended and the run goes on
FetchPhaseEnded == pc \in {"analyze", "extract"}

\* C9: in the fetch phase the completed count is the number of futures
\* collected, one advance per candidate whatever its fetch came to; it never
\* decreases, never exceeds the number of candidates and equals it when the
\* phase ends.
C9_ProgressPerCandidate ==
    /\ [](InFetchPhase =>
            /\ progress.total = Cardinality(found_issue_keys)
            /\ progress.completed = Cardinality(InState(fut_state, "collected"))
            /\ progress.completed <= progress.total)
    /\ [][(InFetchPhase /\ InFetchPhase') =>
            /\ progress'.completed >= progress.completed
            /\ progress'.completed <= progress.completed + 1]_vars
    /\ [](FetchPhaseEnded => progress.completed = Cardinality(found_issue_keys))

\* the phase has ended with several candidates, some failed, all counted
C9_Witness ==
    /\ FetchPhaseEnded
    /\ progress.completed = Cardinality(found_issue_keys)
    /\ Cardinality(found_issue_keys) > 1
    /\ Succeeded # {}
    /\ Succeeded # found_issue_keys

\* C10: once the collecting thread has been interrupted, the document map
\* keeps what it holds and no request is started for a candidate whose fetch
\* had not begun.
C10_Cancellation ==
    [][pc = "interrupted" =>
          /\ fetched_data_map' = fetched_data_map
          /\ InState(fut_state', "running") \subseteq InState(fut_state, "running")]_vars

(***************************************************************************)
(* Properties of one enumeration.                                          *)
(***************************************************************************)
AllRequestsSucceeded == server_fail[1].at \notin 1..Len(cur.sent)

\* C5: when every page request succeeded, the enumeration returns after at
\* most one request per issue plus one, and the keys it returns are the
\* distinct keys of all the server's pages.
C5_PaginationComplete ==
    /\ Len(cur.sent) <= Len(server_issues[1]) + 1
    /\ (pc = "returned" /\ AllRequestsSucceeded) =>
           Range(cur.result) = Range(server_issues[1])


\* the request that the server answers with an error status has been sent
StatusFailureSent ==
    /\ server_fail[1].kind = "status"
    /\ server_fail[1].at \in 1..Len(cur.sent)

\* C13: when a page request is answered with a status other than 200, it is
\* the last request of the enumeration, and the function returns the issues
\* of the pages before it, in order.
C13_NonSuccessPage ==
    StatusFailureSent =>
        /\ Len(cur.sent) = server_fail[1].at
        /\ cur.done
        /\ cur.result = SubSeq(server_issues[1], 1, cur.sent[server_fail[1].at])

\* an enumeration ended by an error status after at least one full page
C13_Witness ==
    /\ pc = "returned"
    /\ StatusFailureSent
    /\ server_fail[1].at > 1
    /\ cur.result # <<>>
    /\ Len(cur.result) < Len(server_issues[1])

\* C14: when the responses carry no total, or one that is not a number, and
\* every request succeeds, the enumeration ends on a request that is answered
\* with zero issues, and returns the issues of all pages.
C14_AbsentTotal ==
    (pc = "returned" /\ server_total \in {"absent", "malformed"} /\ AllRequestsSucceeded) =>
        /\ cur.sent[Len(cur.sent)] = Len(server_issues[1])
        /\ cur.result = server_issues[1]


(***************************************************************************)
(* The enumeration phase of handle_jira alone, against a drawn server.     *)
(***************************************************************************)
HitLists == UNION {[1..n -> Ids] : n \in 0..MaxHits}

\* at most one keyword has a failing page request
SearchFailures ==
    {f \in [Keywords -> PageFailures] :
        Cardinality({q \in Keywords : f[q] # NoFail}) <= 1}

InitSearch ==
    /\ pc = "start"
    /\ page_list = <<>>
    /\ SessionOpen
    /\ mode \in {"keywords", "project"}
    /\ threads \in 1..MaxThreads
    /\ server_issues \in [Keywords -> HitLists]
    /\ server_total \in {"exact", "absent"}
    /\ server_fail \in SearchFailures
    /\ server_cap \in 1..ServerPageCap
    /\ issue_resp = <<>>
    /\ found_issue_keys = {}
    /\ found_issues = <<>>
    /\ kw_index = 0
    /\ kw_state = <<>>
    /\ fut_state = <<>>
    /\ fut_result = <<>>
    /\ fetch_order = <<>>
    /\ progress = Idle
    /\ console = LoginBanner
    /\ regexes = BaseRules
    /\ custom_rules = <<>>
    /\ fetched_data_map = <<>>
    /\ results = <<>>
    /\ extracted = <<>>
    /\ page_fn = "none"
    /\ cur = StartPages

SearchPhase ==
    \/ SubmitSearches
    \/ \E kw \in Keywords : SearchStart(kw)
    \/ \E kw \in Keywords : SearchFinish(kw)
    \/ \E kw \in Keywords : SearchCollect(kw)
    \/ SearchesDone
    \/ StartProjectSearch
    \/ SearchProjectStep
    \/ SearchProjectReturn

NextSearch == SearchPhase

SpecSearch == InitSearch /\ [][NextSearch]_vars

(***************************************************************************)
(* Properties of the enumeration phase.                                    *)
(***************************************************************************)
\* the issues of the pages the server delivered to search_keyword(kw)
Delivered(kw) ==
    Range(SubSeq(server_issues[kw], 1, RunPages("search_keyword", kw, StartPages).start_at))

\* the issues of the one page the server delivered to search_project_keywords
DeliveredToProject(kw) ==
    LET resp == SearchResponse(kw, 0, project_max_results, 1)
    IN IF resp.raises \/ resp.status # 200 THEN {} ELSE Range(resp.issues)

FoundKeys == [k \in DOMAIN found_issues |-> found_issues[k].key]

NoDuplicates(list) == \A i, j \in DOMAIN list : list[i] = list[j] => i = j

\* C6: when the searches of all keywords have been merged, the candidate
\* collection holds every issue a search was served, and each once: the set
\* of the threaded search is the union of the keywords' pages, and the list
\* of search_project_keywords has no key twice.
C6_KeywordUnion ==
    pc = "found" =>
        /\ mode = "keywords" =>
               found_issue_keys = UNION {Delivered(kw) : kw \in Keywords}
        /\ mode = "project" =>
               /\ NoDuplicates(FoundKeys)
               /\ Range(FoundKeys) = UNION {DeliveredToProject(kw) : kw \in Keywords}
               /\ found_issue_keys = Range(FoundKeys)

\* an issue the server returned under two keywords and twice under one of
\* them, merged by the threaded search
C6_Witness ==
    /\ pc = "found"
    /\ mode = "keywords"
    /\ \E i \in found_issue_keys :
           /\ \A kw \in Keywords : i \in Delivered(kw)
           /\ \E kw \in Keywords : \E a, b \in DOMAIN server_issues[kw] :
                  a < b /\ server_issues[kw][a] = i /\ server_issues[kw][b] = i
                  /\ b <= RunPages("search_keyword", kw, StartPages).start_at
    /\ Cardinality(found_issue_keys) > 1


(***************************************************************************)
(* A whole run of handle_jira after login.                                 *)
(***************************************************************************)
\* result lists without repetition, in ascending key order
RunLists == {l \in HitLists : \A i, j \in DOMAIN l : i < j => l[i] < l[j]}

\* the first keyword's first request may fail
RunFailures ==
    {[q \in Keywords |-> IF q = 1 THEN f ELSE NoFail] :
        f \in {NoFail, [at |-> 1, kind |-> "status"], [at |-> 1, kind |-> "exception"]}}

\* the fetch of the first issue may fail
RunResponses ==
    {[iid \in Ids |-> IF iid = 1 THEN k ELSE "ok"] : k \in {"ok", "status", "exception"}}

Init ==
    /\ pc = "start"
    /\ page_list = <<>>
    /\ SessionOpen
    /\ mode \in {"keywords", "project", "extract"}
    /\ threads \in 1..MaxThreads
    /\ server_issues \in [Keywords -> RunLists]
    /\ server_total \in {"exact", "absent"}
    /\ server_fail \in RunFailures
    /\ server_cap = ServerPageCap
    /\ issue_resp \in RunResponses
    /\ found_issue_keys = {}
    /\ found_issues = <<>>
    /\ kw_index = 0
    /\ kw_state = <<>>
    /\ fut_state = <<>>
    /\ fut_result = <<>>
    /\ fetch_order = <<>>
    /\ progress = Idle
    /\ console = LoginBanner
    /\ regexes = BaseRules
    /\ custom_rules = <<>>
    /\ fetched_data_map = <<>>
    /\ results = <<>>
    /\ extracted = <<>>
    /\ page_fn = "none"
    /\ cur = StartPages

Next == SearchPhase \/ ListIssues \/ FetchPhase \/ Analyze \/ Extract

Spec == Init /\ [][Next]_vars

(***************************************************************************)
(* collect_urls_and_ips alone, on drawn documents in a drawn dict order.   *)
(***************************************************************************)
MaxItems == 2

ExtractDescriptions == {None, VisitText, UrlText}

ExtractCommentLists == {<<>>, <<VisitText>>, <<UrlText>>, <<OtherVisitText, UrlText>>}

ExtractDetails ==
    [summary : {"s"}, description : ExtractDescriptions, comments : ExtractCommentLists]

\* the orders in which a dict with the keys S can iterate them
KeyOrders(S) == {l \in [1..Cardinality(S) -> S] : Range(l) = S}

InitExtract ==
    /\ pc = "extract"
    /\ page_list = <<>>
    /\ SessionOpen
    /\ mode = "extract"
    /\ \E keys \in SUBSET (1..MaxItems) :
           /\ fetched_data_map \in [keys -> ExtractDetails]
           /\ fetch_order \in KeyOrders(keys)
           /\ found_issue_keys = keys
    /\ threads = 1
    /\ found_issues = <<>>
    /\ kw_index = 0
    /\ kw_state = <<>>
    /\ fut_state = <<>>
    /\ fut_result = <<>>
    /\ progress = Idle
    /\ console = Printed(LoginBanner, "Identified", <<Cardinality(found_issue_keys)>>)
    /\ regexes = <<>>
    /\ custom_rules = <<>>
    /\ results = <<>>
    /\ extracted = <<>>
    /\ server_issues = [q \in Keywords |-> <<>>]
    /\ server_total = "exact"
    /\ server_fail = [q \in Keywords |-> NoFail]
    /\ server_cap = ServerPageCap
    /\ issue_resp = <<>>
    /\ page_fn = "none"
    /\ cur = StartPages

NextExtract == Extract

SpecExtract == InitExtract /\ [][NextExtract]_vars

(***************************************************************************)
(* Properties of the extraction.                                           *)
(***************************************************************************)
\* the list is in ascending order of its str values
Ascending(list) == \A i, j \in DOMAIN list : i < j => StrLeq(list[i], list[j])

\* the strings the two patterns match in the text of one document
MatchesOfItem(id) == extract_urls_and_ips(ItemText(fetched_data_map[id]))

\* C15: the two lists collect_urls_and_ips returns have no element twice,
\* are in ascending order, hold the matches of all documents, and are the
\* same for every order in which the dict iterates the same documents.
C15_ExtractionNormalised ==
    pc = "done" =>
        /\ NoDuplicates(Urls(extracted)) /\ NoDuplicates(Ips(extracted))
        /\ Ascending(Urls(extracted)) /\ Ascending(Ips(extracted))
        /\ Range(Urls(extracted)) =
               UNION {Range(Urls(MatchesOfItem(id))) : id \in DOMAIN fetched_data_map}
        /\ Range(Ips(extracted)) =
               UNION {Range(Ips(MatchesOfItem(id))) : id \in DOMAIN fetched_data_map}
        /\ \A order \in KeyOrders(DOMAIN fetched_data_map) :
               collect_urls_and_ips(fetched_data_map, order) = extracted

\* two documents iterated in descending key order, with different matches
\* and a match in common, and more than one URL returned
C15_Witness ==
    /\ pc = "done"
    /\ Len(fetch_order) > 1
    /\ fetch_order[1] > fetch_order[2]
    /\ Len(Urls(extracted)) > 1
    /\ \E a, b \in DOMAIN fetched_data_map :
           /\ a # b
           /\ Range(Urls(MatchesOfItem(a))) # Range(Urls(MatchesOfItem(b)))
           /\ Range(Urls(MatchesOfItem(a))) \cap Range(Urls(MatchesOfItem(b))) # {}

\* x occurs in the text t
IsSubstring(x, t) ==
    \E i \in 1..(Len(t) + 1) : i + Len(x) - 1 <= Len(t) /\ SubSeq(t, i, i + Len(x) - 1) = x

\* x occurs in the description or in one of the comments of the document
InDocument(x, data) ==
    \/ data.description # None /\ IsSubstring(x, data.description)
    \/ \E j \in DOMAIN data.comments :
           data.comments[j] # None /\ IsSubstring(x, data.comments[j])

\* the map holds one document, with the example text in the given place
OnlyExample(description, comments) ==
    \E id \in DOMAIN fetched_data_map :
        /\ DOMAIN fetched_data_map = {id}
        /\ fetched_data_map[id].description = description
        /\ fetched_data_map[id].comments = comments

\* C16: one document with "visit http://a.b/c and 10.0.0.1" as its
\* description or as a comment gives urls = ["http://a.b/c"] and
\* ips = ["10.0.0.1"]; and every string extracted from any map occurs in the
\* description or in a comment of one of its documents.
C16_ExtractionOverFields ==
    pc = "done" =>
        /\ (OnlyExample(VisitText, <<>>) \/ OnlyExample(None, <<VisitText>>)) =>
               extracted = <<<<UrlText>>, <<IpText>>>>
        /\ \A x \in Range(Urls(extracted)) \cup Range(Ips(extracted)) :
               \E id \in DOMAIN fetched_data_map : InDocument(x, fetched_data_map[id])

(***************************************************************************)
(* Properties of a whole run.                                              *)
(***************************************************************************)
ScanRun == mode \in {"keywords", "project"}

Reports(msg, args) == \E i \in DOMAIN console : console[i] = [msg |-> msg, args |-> args]

\* handle_jira returned, at line 1039 or after display_results
RunEnded == pc \in {"done", "returned"}

\* the found count, the fetched and scanned count, and the matched count,
\* "No secrets found" standing for a matched count of zero
CountsReported ==
    /\ Reports("Search returned", <<Cardinality(found_issue_keys)>>)
    /\ Reports("Analyzing", <<Cardinality(DOMAIN fetched_data_map)>>)
    /\ \/ Reports("Total Issues with Secrets", <<Cardinality(DOMAIN results)>>)
       \/ DOMAIN results = {} /\ Reports("No secrets found", <<>>)

\* C17: after login, whatever pages, keywords and fetches fail and also when
\* no candidate is found, a scan run that has reached its end has reported
\* the found, fetched, scanned and matched counts.
C17_RunCompletion == ScanRun /\ RunEnded => CountsReported

(***************************************************************************)
(* Further properties of the scan.                                         *)
(***************************************************************************)
\* the scanned documents whose description is None or ""; fetch_issue_data
\* stores "" for a response without the field
WithoutDescription ==
    {id \in DOMAIN fetched_data_map : ~Truthy(fetched_data_map[id].description)}

\* C18: after the scan, a document whose description is missing, null or
\* empty has no description matches, and if a rule matches in one of its
\* comments it has an entry in the result that holds the comment matches.
C18_MissingPrimaryText ==
    pc = "done" =>
        \A id \in WithoutDescription :
            /\ ReportedDescription(id) = {}
            /\ WholeCommentMatches(fetched_data_map[id].comments) # {} =>
                   /\ id \in DOMAIN results
                   /\ ReportedComments(id) # {}

\* C19: after the scan, neither the description match list nor the comment
\* match list of any entry of the result holds the same string twice, also
\* when several rules, several positions or several comments yield it.
C19_MatchDeduplication ==
    pc = "done" =>
        \A id \in DOMAIN results :
            /\ NoDuplicates(results[id].description)
            /\ NoDuplicates(results[id].comments)

\* an entry whose description yields the same string under two rules and
\* whose comments yield the same string twice
C19_Witness ==
    /\ pc = "done"
    /\ \E id \in DOMAIN results :
           /\ ~NoDuplicates(DMatch(Compiled, fetched_data_map[id].description))
           /\ ~NoDuplicates(CMatch(Compiled, fetched_data_map[id].comments))
           /\ results[id].description # <<>>
           /\ results[id].comments # <<>>

(***************************************************************************)
(* main and login: the checks before the run, and the run after them.      *)
(***************************************************************************)
\* args.token or (args.username and args.password)
HasCredentials == token \/ (username /\ password)

\* none of the options that select what the jira command does is given
NoAction == mode = "none"

\* main, the branch of the jira command up to handle_jira(args): each failed
\* check ends the process with sys.exit(1)
CheckArguments ==
    /\ pc = "main"
    /\ pc' = IF ~HasCredentials THEN "no_credentials"
             ELSE IF ~url THEN "no_url"
             ELSE IF NoAction THEN "no_action"
             ELSE "login"
    /\ console' = IF ~HasCredentials
                  THEN Printed(console, "Error: You must provide either a Token", <<>>)
                  ELSE IF ~url THEN Printed(console, "Error: Jira URL (-u) is required", <<>>)
                  ELSE console
    /\ UNCHANGED <<scanVars, serverVars, pageVars, argVars, page_list, searchVars, fetchVars>>

Answered200Always(resp) == TRUE

\* success after the loop over myself_urls; for Jira the list holds the one
\* endpoint /rest/api/2/myself, and an exception of the request is skipped
Answered200(resp) == resp = "ok"

\* login: the session is returned when the endpoint answered 200, otherwise
\* "Login failed" and sys.exit(1)
Login ==
    /\ pc = "login"
    /\ pc' = IF Answered200(login_resp) THEN "start" ELSE "login_failed"
    /\ console' = IF Answered200(login_resp)
                  THEN Printed(console, "Successfully logged in", <<>>)
                  ELSE Printed(console, "Login failed", <<>>)
    /\ UNCHANGED <<scanVars, serverVars, pageVars, argVars, page_list, searchVars, fetchVars>>

\* token alone, username and password, username alone, nothing
Credentials ==
    {<<TRUE, FALSE, FALSE>>, <<FALSE, TRUE, TRUE>>, <<FALSE, TRUE, FALSE>>,
     <<FALSE, FALSE, FALSE>>}

InitMain ==
    /\ pc = "main"
    /\ page_list = <<>>
    /\ mode \in {"none", "keywords", "project", "extract"}
    /\ \E c \in Credentials :
           /\ token = Head(c)
           /\ username = Head(Tail(c))
           /\ password = Head(Tail(Tail(c)))
    /\ url \in BOOLEAN
    /\ login_resp \in {"ok", "status", "exception"}
    /\ threads \in 1..MaxThreads
    /\ server_issues \in [Keywords -> RunLists]
    /\ server_total \in {"exact", "absent"}
    /\ server_fail \in RunFailures
    /\ server_cap = ServerPageCap
    /\ issue_resp \in RunResponses
    /\ found_issue_keys = {}
    /\ found_issues = <<>>
    /\ kw_index = 0
    /\ kw_state = <<>>
    /\ fut_state = <<>>
    /\ fut_result = <<>>
    /\ fetch_order = <<>>
    /\ progress = Idle
    /\ console = <<>>
    /\ regexes = BaseRules
    /\ custom_rules = <<>>
    /\ fetched_data_map = <<>>
    /\ results = <<>>
    /\ extracted = <<>>
    /\ page_fn = "none"
    /\ cur = StartPages

NextMain == CheckArguments \/ Login \/ Next

SpecMain == InitMain /\ [][NextMain]_vars

\* the process has ended in one of the sys.exit(1) calls
ProcessExited == pc \in {"no_credentials", "no_url", "no_action", "login_failed"}

\* no search request and no fetch request has been sent
NoRequestIssued ==
    /\ kw_state = <<>>
    /\ kw_index = 0
    /\ found_issues = <<>>
    /\ found_issue_keys = {}
    /\ fut_state = <<>>
    /\ fut_result = <<>>
    /\ cur = StartPages

ChecksPassed == pc \notin {"main", "login"}

\* C20: the process exits only when the credentials are missing or the login
\* endpoint did not answer 200, and then no search or fetch request has been
\* sent; no failed search page, keyword or fetch makes it exit.
C20_FatalityPolicy ==
    ChecksPassed =>
        /\ ProcessExited => ~HasCredentials \/ pc = "login_failed"
        /\ ProcessExited => NoRequestIssued

ConfigurationError ==
    ~HasCredentials \/ ~url \/ NoAction \/ login_resp # "ok"

\* C20, amended: the process exits exactly when the credentials, the URL or
\* the action option are missing or the login endpoint did not answer 200,
\* and then no search or fetch request has been sent; whatever search page,
\* keyword or fetch fails, a run that logged in does not exit.
C20_FatalityPolicyAmended ==
    ChecksPassed =>
        /\ ProcessExited <=> ConfigurationError
        /\ ProcessExited => NoRequestIssued

\* a run with credentials, URL and action whose login was refused: it has
\* exited before any request of the search
C20_Witness ==
    /\ pc = "login_failed"
    /\ HasCredentials /\ url /\ ~NoAction
    /\ login_resp = "status"
    /\ server_fail[1] # NoFail
    /\ NoRequestIssued

(***************************************************************************)
(* Further properties of one enumeration.                                  *)
(***************************************************************************)
\* the request that raises (transport error, or a body that does not
\* decode) has been sent
ExceptionSent ==
    /\ server_fail[1].kind = "exception"
    /\ server_fail[1].at \in 1..Len(cur.sent)

\* C21: when list_project_issues has collected at least one page and the
\* next page request raises, it returns the issues of the pages before it.
C21_TransportFailureKeepsPages ==
    (pc = "returned" /\ page_fn = "list_project_issues" /\ ExceptionSent
        /\ server_fail[1].at > 1) =>
        cur.result = SubSeq(server_issues[1], 1, cur.sent[server_fail[1].at])

(***************************************************************************)
(* handle_confluence: the fetch phase of the extraction mode, from a drawn  *)
(* page list.  The loop over as_completed is the one of handle_jira, so the *)
(* workers and the collecting step are FetchStart and FetchCollect.         *)
(***************************************************************************)
MaxPages == 3

\* a page of the listing with an id, and one without
PageOf(id) == [id |-> id, title |-> "t"]
NoIdPage == [title |-> "t"]

\* p.get('id')
HasId(p) == "id" \in DOMAIN p

\* what the server holds for a page
ServerPage(pid) ==
    [title |-> "t", body |-> VisitText, attachments |-> <<>>, space_key |-> "S"]

DefaultPageDetails ==
    [title |-> "N/A", body |-> <<>>, attachments |-> <<>>, space_key |-> "UNKNOWN_SPACE"]

\* fetch_confluence_page_data: the defaults unless the page request is
\* answered with 200; every exception is swallowed
fetch_confluence_page_data(pid) ==
    <<pid, IF issue_resp[pid] = "ok" THEN ServerPage(pid) ELSE DefaultPageDetails>>

\* task = progress.add_task(.., total=len(page_list)); one future per entry
\* of page_list that has an id
SubmitPageFetches ==
    /\ pc = "conf_found"
    /\ page_list # <<>>
    /\ progress' = [total |-> Len(page_list), completed |-> 0]
    /\ fut_state' = [i \in {j \in DOMAIN page_list : HasId(page_list[j])} |-> "pending"]
    /\ pc' = "fetch_collect"
    /\ UNCHANGED <<scanVars, serverVars, pageVars, argVars, page_list, console, searchVars,
                   fut_result, fetch_order>>

\* the worker's call of fetch_confluence_page_data returns
PageFetchFinish(i) ==
    /\ i \in InState(fut_state, "running")
    /\ fut_state' = [fut_state EXCEPT ![i] = "finished"]
    /\ fut_result' = [k \in DOMAIN fut_result \cup {i} |->
                         IF k = i THEN fetch_confluence_page_data(page_list[i].id)
                         ELSE fut_result[k]]
    /\ UNCHANGED <<pc, scanVars, serverVars, pageVars, argVars, page_list, console, searchVars,
                   fetch_order, progress>>

\* the loop and the `with` blocks end
PageFetchesDone ==
    /\ pc = "fetch_collect"
    /\ AllCollected(fut_state)
    /\ pc' = "conf_fetched"
    /\ UNCHANGED <<scanVars, serverVars, pageVars, argVars, page_list, console, searchVars,
                   fetchVars>>

\* page lists with repeated ids and with entries without an id
PageLists == UNION {[1..n -> {PageOf(id) : id \in Ids} \cup {NoIdPage}] : n \in 1..MaxPages}

InitConfluence ==
    /\ pc = "conf_found"
    /\ SessionOpen
    /\ mode = "extract"
    /\ page_list \in PageLists
    /\ issue_resp \in [Ids -> {"ok", "status"}]
    /\ threads \in 1..MaxThreads
    /\ found_issue_keys = {}
    /\ found_issues = <<>>
    /\ kw_index = 0
    /\ kw_state = <<>>
    /\ fut_state = <<>>
    /\ fut_result = <<>>
    /\ fetch_order = <<>>
    /\ progress = Idle
    /\ console = Printed(LoginBanner, "Identified", <<Len(page_list)>>)
    /\ regexes = <<>>
    /\ custom_rules = <<>>
    /\ fetched_data_map = <<>>
    /\ results = <<>>
    /\ extracted = <<>>
    /\ server_issues = [q \in Keywords |-> <<>>]
    /\ server_total = "exact"
    /\ server_fail = [q \in Keywords |-> NoFail]
    /\ server_cap = ServerPageCap
    /\ page_fn = "none"
    /\ cur = StartPages

NextConfluence ==
    \/ SubmitPageFetches
    \/ \E i \in 1..MaxPages : FetchStart(i) \/ PageFetchFinish(i) \/ FetchCollect(i)
    \/ PageFetchesDone

SpecConfluence == InitConfluence /\ [][NextConfluence]_vars

\* C22: in the fetch phase every assignment to the document map, made by the
\* collecting loop when it takes a finished future, writes a key the map
\* does not hold yet, also when the page list holds the same id twice.
C22_SingleWritePerKey ==
    [][\A fid \in DOMAIN fut_state :
           (fut_state[fid] = "finished" /\ fut_state'[fid] = "collected") =>
               fut_result[fid][1] \notin DOMAIN fetched_data_map]_vars

\* C27: when the Confluence fetch phase has ended, the completed count of
\* the progress task equals the total announced at its start, also for page
\* lists that hold entries without an id.
C27_ProgressReachesTotal ==
    pc = "conf_fetched" => progress.completed = progress.total

\* the response to the n-th request the enumeration has sent
ResponseTo(n) == SearchResponse(1, cur.sent[n], max_results, n)

\* the n-th request was answered with 200 and at least one issue
NonEmptyPage(n) ==
    /\ ~ResponseTo(n).raises
    /\ ResponseTo(n).status = 200
    /\ ResponseTo(n).issues # <<>>

\* the offset after the n-th request: the one sent next, or the cursor
OffsetAfter(n) == IF n < Len(cur.sent) THEN cur.sent[n + 1] ELSE cur.start_at

\* C23: the offsets of successive page requests are strictly increasing, and
\* after every non-empty page the offset is the offset of that request plus
\* the number of issues the page returned.
C23_CursorMonotone ==
    /\ \A n \in 1..(Len(cur.sent) - 1) : cur.sent[n] < cur.sent[n + 1]
    /\ \A n \in DOMAIN cur.sent :
           NonEmptyPage(n) => OffsetAfter(n) = cur.sent[n] + Len(ResponseTo(n).issues)

\* an enumeration of three requests whose pages were shorter than the
\* requested page size
C23_Witness ==
    /\ pc = "returned"
    /\ Len(cur.sent) >= 3
    /\ NonEmptyPage(1) /\ NonEmptyPage(2)
    /\ Len(ResponseTo(1).issues) < max_results
    /\ cur.sent[3] = Len(ResponseTo(1).issues) + Len(ResponseTo(2).issues)

(***************************************************************************)
(* Further properties of the enumeration phase.                            *)
(***************************************************************************)
\* C24: when search_project_keywords has returned, the candidates hold
\* every issue the server has for a keyword whose requests all succeed and
\* report the exact total, the issues beyond the server's first page
\* included.
C24_ProjectSearchPaginated ==
    (pc = "found" /\ mode = "project" /\ server_total = "exact") =>
        \A kw \in Keywords :
            server_fail[kw] = NoFail => Range(server_issues[kw]) \subseteq found_issue_keys

(***************************************************************************)
(* Further properties of the fetch phase.                                  *)
(***************************************************************************)
\* the one way a future moves: queued, requested by a worker, finished,
\* taken by the collecting loop
FutureStep(old, new) ==
    \/ new = old
    \/ old = "pending" /\ new = "running"
    \/ old = "running" /\ new = "finished"
    \/ old = "finished" /\ new = "collected"

\* C25: in a fetch phase there is one future per candidate, each future is
\* requested by a worker once and never goes back to the queue, whether its
\* request failed or not, and at the end of the phase every candidate has
\* been requested.
C25_NoRetry ==
    /\ [](FetchPhaseEnded =>
              DOMAIN fut_state = found_issue_keys /\ AllCollected(fut_state))
    /\ [][\A iid \in DOMAIN fut_state :
              /\ iid \in DOMAIN fut_state'
              /\ FutureStep(fut_state[iid], fut_state'[iid])]_vars

\* a phase that has ended with a candidate whose request failed
C25_Witness ==
    /\ FetchPhaseEnded
    /\ \E iid \in found_issue_keys :
           /\ issue_resp[iid] # "ok"
           /\ fut_state[iid] = "collected"
           /\ fetched_data_map[iid] = DefaultDetails

(***************************************************************************)
(* What the scan prints.                                                   *)
(***************************************************************************)
\* the rules of the merged table whose pattern does not compile
DroppedRules ==
    {r \in Range(MergedRules(regexes, custom_rules)) : ~Compiles(Head(Tail(r)))}

\* the messages of a run in which every rule compiles
RunMessages ==
    {"Successfully logged in", "Search returned", "Identified", "Scanned Issues",
     "Analyzing", "Scan Compete", "No secrets found", "Total Issues with Secrets"}

\* C26: when a rule of the merged table does not compile, the scan has put
\* a warning about it on the console.
C26_CompileWarning ==
    (pc = "done" /\ DroppedRules # {}) =>
        \E i \in DOMAIN console : console[i].msg \notin RunMessages

\* C28: throughout a Jira scan run the keys of the fetched document map
\* are candidates, and at its end the keys of the scan result are keys of
\* the fetched document map.
C28_ResultContainment ==
    ScanRun =>
        /\ DOMAIN fetched_data_map \subseteq found_issue_keys
        /\ pc = "done" => DOMAIN results \subseteq DOMAIN fetched_data_map

\* a run that ended with a result for some of the fetched documents only
C28_Witness ==
    /\ pc = "done"
    /\ ScanRun
    /\ DOMAIN results # {}
    /\ DOMAIN results # DOMAIN fetched_data_map

(***************************************************************************)
(* Further properties of a whole run.                                      *)
(***************************************************************************)
\* every keyword search has returned and its result has been taken
SearchesFinished ==
    IF mode = "keywords"
    THEN /\ DOMAIN kw_state = Range(keywords_to_search)
         /\ \A kw \in DOMAIN kw_state : kw_state[kw] = "collected"
    ELSE kw_index > Len(keywords_to_search)

\* every candidate has a future, and the collecting loop has taken it
FetchesFinished ==
    /\ DOMAIN fut_state = found_issue_keys
    /\ \A iid \in DOMAIN fut_state : fut_state[iid] = "collected"

\* C29: in a Jira scan run a fetch is submitted only when every keyword
\* search has finished, and check_credentials runs only when every
\* submitted fetch has finished and the loop has stored its result, so no
\* write to the document map is pending while it is scanned.
C29_PhaseOrdering ==
    ScanRun =>
        /\ DOMAIN fut_state # {} => SearchesFinished
        /\ pc \in {"analyze", "done"} => SearchesFinished /\ FetchesFinished

\* a threaded run that scanned two fetched documents
C29_Witness ==
    /\ pc = "done"
    /\ mode = "keywords"
    /\ Cardinality(DOMAIN fetched_data_map) = 2
    /\ FetchesFinished

\* the keywords whose search has a failing page request
FailedKeywords == {kw \in Keywords : server_fail[kw] # NoFail}

\* what the server returned to the search of a keyword
ReturnedTo(kw) == IF mode = "keywords" THEN Delivered(kw) ELSE DeliveredToProject(kw)

\* C30: when the searches have been merged and the search of a keyword
\* failed, the candidates hold every issue the server returned to the
\* searches of the other keywords, in whatever order the searches ended.
C30_KeywordFailureIsolation ==
    (pc = "found" /\ FailedKeywords # {}) =>
        \A kw \in Keywords \ FailedKeywords : ReturnedTo(kw) \subseteq found_issue_keys

\* a keyword whose first request failed, taken after the search of another
\* keyword that returned issues
C30_Witness ==
    /\ pc = "found"
    /\ \E bad \in FailedKeywords, kw \in Keywords \ FailedKeywords :
           /\ server_fail[bad].at = 1
           /\ server_issues[bad] # <<>>
           /\ ReturnedTo(bad) = {}
           /\ ReturnedTo(kw) # {}
           /\ ReturnedTo(kw) \subseteq found_issue_keys

====
